---- MODULE Spec2Model ----
(***************************************************************************)
(* Breathing practice controller of HTMLCSSJS/script.js                    *)
(* (practiceController): the timer state, its three operations, the tick   *)
(* callback of the 1-second interval and the two configuration handlers.   *)
(* Strings that the code parses or formats (control values, the MM:SS      *)
(* text) are sequences of one-character strings.                           *)
(***************************************************************************)
EXTENDS Integers, Sequences, FiniteSets, TLC

\* ---------------------------------------------------------------- bounds
MaxTempo == 4          \* largest tempo option offered by the control
MaxDuration == 8       \* largest duration option offered by the control
MaxTimerId == 3        \* pool of interval handles setInterval can hand out

MaxFmtInput == 130     \* fmt is applied to seconds up to this value
MaxFmtNegative == 5    \* and down to minus this value

\* ------------------------------------------------------- string helpers
DigitChars == <<"0", "1", "2", "3", "4", "5", "6", "7", "8", "9">>

IsDigit(c) == \E i \in 1..10 : DigitChars[i] = c

DigitVal(c) == (CHOOSE i \in 1..10 : DigitChars[i] = c) - 1

RECURSIVE NatToStr(_)
\* Number.prototype.toString() of a non-negative integer
NatToStr(n) == IF n < 10 THEN <<DigitChars[n + 1]>>
               ELSE NatToStr(n \div 10) \o <<DigitChars[(n % 10) + 1]>>

\* Number.prototype.toString() of an integer
ToStr(n) == IF n < 0 THEN <<"-">> \o NatToStr(0 - n) ELSE NatToStr(n)

RECURSIVE PadStart(_, _, _)
\* String.prototype.padStart(len, c)
PadStart(s, len, c) == IF Len(s) >= len THEN s ELSE PadStart(<<c>> \o s, len, c)

Max(a, b) == IF a >= b THEN a ELSE b

Min(a, b) == IF a <= b THEN a ELSE b

\* mutant: fmt without the clamp of negative input
fmt_NoClamp(seconds) ==
    LET m  == PadStart(ToStr(seconds \div 60), 2, "0")
        ss == PadStart(ToStr(seconds % 60), 2, "0")
    IN  m \o <<":">> \o ss

\* fmt(seconds): MM:SS, negative input clamped to 0
fmt(seconds) ==
    LET s  == Max(0, seconds)
        m  == PadStart(ToStr(s \div 60), 2, "0")
        ss == PadStart(ToStr(s % 60), 2, "0")
    IN  m \o <<":">> \o ss

\* ------------------------------------------------------------- parseInt
NaN == [nan |-> TRUE, val |-> 0]

Num(n) == [nan |-> FALSE, val |-> n]

RECURSIVE SkipSpace(_)
SkipSpace(s) == IF s # <<>> /\ Head(s) = " " THEN SkipSpace(Tail(s)) ELSE s

RECURSIVE DigitPrefix(_)
\* the longest prefix of s made of decimal digits
DigitPrefix(s) == IF s # <<>> /\ IsDigit(Head(s))
                  THEN <<Head(s)>> \o DigitPrefix(Tail(s))
                  ELSE <<>>

RECURSIVE DigitsVal(_, _)
DigitsVal(s, acc) == IF s = <<>> THEN acc
                     ELSE DigitsVal(Tail(s), acc * 10 + DigitVal(Head(s)))

\* parseInt(str, 10): leading blanks skipped, optional sign, then the
\* longest run of digits; NaN when there is no digit
parseInt(str) ==
    LET t    == SkipSpace(str)
        neg  == t # <<>> /\ Head(t) = "-"
        body == IF t # <<>> /\ Head(t) \in {"-", "+"} THEN Tail(t) ELSE t
        ds   == DigitPrefix(body)
    IN  IF ds = <<>> THEN NaN
        ELSE Num(IF neg THEN 0 - DigitsVal(ds, 0) ELSE DigitsVal(ds, 0))

\* v || dflt for a number v: NaN and 0 are falsy
OrDefault(v, dflt) == IF v.nan \/ v.val = 0 THEN dflt ELSE v.val

DefaultTempo == 4

DefaultTotal == 60

\* parseInt(tempoSel.value, 10) || 4
readTempo(value) == OrDefault(parseInt(value), DefaultTempo)

\* parseInt(durSel.value, 10) || 60
readTotal(value) == OrDefault(parseInt(value), DefaultTotal)

\* ---------------------------------------------------------------- phases
phases == << [key |-> "inhale", label |-> "Inhale", scale |-> "1.28"],
             [key |-> "hold1",  label |-> "Hold",   scale |-> "1.28"],
             [key |-> "exhale", label |-> "Exhale", scale |-> "1"],
             [key |-> "hold2",  label |-> "Hold",   scale |-> "1"] >>

\* the values the two select controls offer: a small enumerated set of
\* positive seconds each (shortest, middle, longest)
TempoOptions == { ToStr(n) : n \in {1, MaxTempo \div 2, MaxTempo} }

DurOptions == { ToStr(n) : n \in {1, MaxDuration \div 2, MaxDuration} }

TimerIds == 1..MaxTimerId

NoTimer == 0   \* interval = null

VARIABLES
    tempoSel,        \* tempoSel.value
    durSel,          \* durSel.value
    prefersReduced,  \* matchMedia('(prefers-reduced-motion: reduce)').matches
    total, tempo, phaseIdx, phaseTimeLeft, timeLeft, running,
    interval,        \* handle kept by the controller
    timers,          \* interval timers currently scheduled by the browser
    cue,             \* cue.textContent
    transition,      \* circle.style.transition
    transform,       \* circle.style.transform
    timeText,        \* timeLeftEl.textContent
    startDisabled, pauseDisabled, resetDisabled,
    op,              \* history: the last operation that ran
    pre,             \* history: timer state the last operation found
    clean,           \* history: since reset(), no pause, no config change,
                     \*          no restart after completion
    ticks            \* history: tick callbacks delivered in a clean run

config  == <<tempoSel, durSel, prefersReduced>>
counters == <<total, tempo, phaseIdx, phaseTimeLeft, timeLeft>>
sched   == <<running, interval, timers>>
display == <<cue, transition, transform, timeText>>
buttons == <<startDisabled, pauseDisabled, resetDisabled>>
prog    == <<config, counters, sched, display, buttons>>
history == <<op, pre, clean, ticks>>
vars    == <<prog, history>>

\* ------------------------------------------------- pieces of the handlers
\* mutant: the reduced-motion preference is ignored
applyTransitionDuration_Always(sec) == [kind |-> "transform", sec |-> sec]

\* `transform ${sec}s ease-in-out`, or 'none' under reduced motion
applyTransitionDuration(sec) ==
    IF prefersReduced THEN [kind |-> "none", sec |-> 0]
    ELSE [kind |-> "transform", sec |-> sec]

\* `scale(${ph.scale})`
ScaleOf(p) == IF phases[p + 1].scale = "1" THEN "scale(1)" ELSE "scale(1.28)"

\* mutant: setPhase() does not write the label
setPhase_NoLabel(p) == [cue        |-> cue,
                        transition |-> applyTransitionDuration(tempo),
                        transform  |-> ScaleOf(p)]

\* setPhase(p): label, transition and animation target of phase p
setPhase(p) == [cue        |-> phases[p + 1].label,
                transition |-> applyTransitionDuration(tempo),
                transform  |-> ScaleOf(p)]

\* mutant: the phase is advanced one tick early
PhaseDue_Early == phaseTimeLeft <= 1

\* tick: "if (phaseTimeLeft <= 0)"
PhaseDue == phaseTimeLeft <= 0

\* mutant: the index advances by two phases
NextPhase_Skip(p) == (p + 2) % Len(phases)

\* tick: "phaseIdx = (phaseIdx + 1) % phases.length"
NextPhase(p) == (p + 1) % Len(phases)

\* mutant: the end-of-run test lets one more decrement through
TimeUp_Strict == timeLeft < 0

\* tick: "if (timeLeft <= 0)"
TimeUp == timeLeft <= 0

\* mutant: start() without its guard
StartIsNoop_Never == FALSE

\* start: "if (running) return"
StartIsNoop == running

\* pause: "if (!running) return"
PauseIsNoop == ~running

\* clearInterval(h): the timer with handle h is no longer scheduled
clearInterval(h) == timers \ {h}

\* mutant: pause() forgets to cancel the interval
PauseTimers_NoClear == timers

\* pause: "clearInterval(interval)"
PauseTimers == clearInterval(interval)

\* mutant: stop() leaves the pause control enabled
StopPauseDisabled_Forgot == FALSE

\* stop: "pauseBtn.disabled = true"
StopPauseDisabled == TRUE

\* mutant: reset() does not rewind the phase countdown
ResetPhaseTime_Keep(newTempo) == phaseTimeLeft

\* reset: "phaseTimeLeft = tempo" (the tempo just read)
ResetPhaseTime(newTempo) == newTempo

\* mutant: the tempo handler leaves the phase in progress alone
TempoPhaseTime_Keep(newTempo) == phaseTimeLeft

\* tempo handler: "phaseTimeLeft = tempo" (the tempo just read)
TempoPhaseTime(newTempo) == newTempo

\* mutant: the duration handler restarts the countdown at the new total
ClampTimeLeft_Rewind(newTotal) == newTotal

\* mutant: the duration handler does not clamp
ClampTimeLeft_NoClamp(newTotal) == timeLeft

\* duration handler: "timeLeft = Math.min(timeLeft, total)"
ClampTimeLeft(newTotal) == Min(timeLeft, newTotal)

\* setInterval hands out a handle that no scheduled timer has
FreshIds == TimerIds \ (timers \cup {interval})

FreshId == CHOOSE i \in FreshIds : \A j \in FreshIds : i <= j

\* the state of the timer's state machine
StateOf == IF running THEN "Running"
           ELSE IF cue = "Complete" THEN "Complete"
           ELSE IF cue = "Ready" THEN "Idle"
           ELSE "Paused"

\* ------------------------------------------------------------------ Init
\* practiceController() has run: declarations, then reset() on the values
\* the controls hold at load time
Init ==
    /\ tempoSel \in TempoOptions
    /\ durSel \in DurOptions
    /\ prefersReduced \in BOOLEAN
    /\ tempo = readTempo(tempoSel)
    /\ total = readTotal(durSel)
    /\ timeLeft = total
    /\ phaseIdx = 0
    /\ phaseTimeLeft = tempo
    /\ running = FALSE
    /\ interval = NoTimer
    /\ timers = {}
    /\ cue = "Ready"
    /\ transition = [kind |-> "unset", sec |-> 0]
    /\ transform = "scale(1)"
    /\ timeText = fmt(timeLeft)
    /\ startDisabled = FALSE
    /\ pauseDisabled = TRUE
    /\ resetDisabled \in BOOLEAN
    /\ op = "init"
    /\ pre = "Idle"
    /\ clean = TRUE
    /\ ticks = 0

\* --------------------------------------------------------------- actions
\* mutant: start() re-initialises the phase countdown
Start_Rewind ==
    /\ op' = "start"
    /\ pre' = StateOf
    /\ UNCHANGED <<config, total, tempo, phaseIdx, timeLeft>>
    /\ IF StartIsNoop
       THEN UNCHANGED <<phaseTimeLeft, sched, display, buttons, clean, ticks>>
       ELSE /\ FreshIds # {}
            /\ running' = TRUE
            /\ startDisabled' = TRUE
            /\ pauseDisabled' = FALSE
            /\ resetDisabled' = FALSE
            /\ phaseTimeLeft' = tempo
            /\ cue' = setPhase(phaseIdx).cue
            /\ transition' = setPhase(phaseIdx).transition
            /\ transform' = setPhase(phaseIdx).transform
            /\ timeText' = fmt(timeLeft)
            /\ interval' = FreshId
            /\ timers' = timers \cup {FreshId}
            /\ clean' = (clean /\ StateOf = "Idle")
            /\ ticks' = 0

\* start()
Start ==
    /\ op' = "start"
    /\ pre' = StateOf
    /\ UNCHANGED <<config, counters>>
    /\ IF StartIsNoop
       THEN UNCHANGED <<sched, display, buttons, clean, ticks>>
       ELSE /\ FreshIds # {}
            /\ running' = TRUE
            /\ startDisabled' = TRUE
            /\ pauseDisabled' = FALSE
            /\ resetDisabled' = FALSE
            /\ cue' = setPhase(phaseIdx).cue
            /\ transition' = setPhase(phaseIdx).transition
            /\ transform' = setPhase(phaseIdx).transform
            /\ timeText' = fmt(timeLeft)
            /\ interval' = FreshId
            /\ timers' = timers \cup {FreshId}
            /\ clean' = (clean /\ StateOf = "Idle")
            /\ ticks' = 0

\* pause()
Pause ==
    /\ op' = "pause"
    /\ pre' = StateOf
    /\ UNCHANGED <<config, counters, display, resetDisabled, interval>>
    /\ IF PauseIsNoop
       THEN UNCHANGED <<running, timers, startDisabled, pauseDisabled, clean, ticks>>
       ELSE /\ running' = FALSE
            /\ startDisabled' = FALSE
            /\ pauseDisabled' = TRUE
            /\ timers' = PauseTimers
            /\ clean' = FALSE
            /\ ticks' = 0

\* reset(): stop(), then re-read the configuration and rewind
Reset ==
    /\ op' = "reset"
    /\ pre' = StateOf
    /\ UNCHANGED <<config, transition, resetDisabled, interval>>
    /\ running' = FALSE
    /\ startDisabled' = FALSE
    /\ pauseDisabled' = StopPauseDisabled
    /\ timers' = clearInterval(interval)
    /\ tempo' = readTempo(tempoSel)
    /\ total' = readTotal(durSel)
    /\ timeLeft' = total'
    /\ phaseIdx' = 0
    /\ phaseTimeLeft' = ResetPhaseTime(tempo')
    /\ transform' = "scale(1)"
    /\ cue' = "Ready"
    /\ timeText' = fmt(timeLeft')
    /\ clean' = TRUE
    /\ ticks' = 0

\* tick(), the callback of the scheduled interval timer id
Tick(id) ==
    /\ id \in timers
    /\ op' = "tick"
    /\ pre' = StateOf
    /\ UNCHANGED <<config, total, tempo, resetDisabled, interval>>
    /\ IF ~running
       THEN UNCHANGED <<phaseIdx, phaseTimeLeft, timeLeft, running, timers,
                        display, startDisabled, pauseDisabled, clean, ticks>>
       ELSE LET idx1 == IF PhaseDue THEN NextPhase(phaseIdx) ELSE phaseIdx
                ptl1 == IF PhaseDue THEN tempo ELSE phaseTimeLeft
                cue1 == IF PhaseDue THEN setPhase(idx1).cue ELSE cue
                trn1 == IF PhaseDue THEN setPhase(idx1).transition ELSE transition
                trf1 == IF PhaseDue THEN setPhase(idx1).transform ELSE transform
            IN  /\ phaseIdx' = idx1
                /\ transition' = trn1
                /\ ticks' = IF clean THEN ticks + 1 ELSE 0
                /\ clean' = clean
                /\ IF TimeUp
                   THEN /\ running' = FALSE
                        /\ startDisabled' = FALSE
                        /\ pauseDisabled' = StopPauseDisabled
                        /\ timers' = clearInterval(interval)
                        /\ cue' = "Complete"
                        /\ transform' = "scale(1)"
                        /\ phaseTimeLeft' = ptl1
                        /\ UNCHANGED <<timeLeft, timeText>>
                   ELSE /\ phaseTimeLeft' = ptl1 - 1
                        /\ timeLeft' = timeLeft - 1
                        /\ timeText' = fmt(timeLeft')
                        /\ cue' = cue1
                        /\ transform' = trf1
                        /\ UNCHANGED <<running, timers, startDisabled, pauseDisabled>>

\* the user picks another tempo: the control's value changes and its
\* 'change' listener runs
TempoChange(value) ==
    /\ value # tempoSel
    /\ tempoSel' = value
    /\ op' = "tempo"
    /\ pre' = StateOf
    /\ tempo' = readTempo(value)
    /\ phaseTimeLeft' = TempoPhaseTime(tempo')
    /\ clean' = FALSE
    /\ ticks' = 0
    /\ UNCHANGED <<durSel, prefersReduced, total, phaseIdx, timeLeft,
                   sched, display, buttons>>

\* mutant: the duration handler does not call updateTime()
DurationChange_NoRefresh(value) ==
    /\ value # durSel
    /\ durSel' = value
    /\ op' = "duration"
    /\ pre' = StateOf
    /\ total' = readTotal(value)
    /\ timeLeft' = ClampTimeLeft(total')
    /\ clean' = FALSE
    /\ ticks' = 0
    /\ UNCHANGED <<tempoSel, prefersReduced, tempo, phaseIdx, phaseTimeLeft,
                   sched, display, buttons>>

\* the user picks another duration
DurationChange(value) ==
    /\ value # durSel
    /\ durSel' = value
    /\ op' = "duration"
    /\ pre' = StateOf
    /\ total' = readTotal(value)
    /\ timeLeft' = ClampTimeLeft(total')
    /\ timeText' = fmt(timeLeft')
    /\ clean' = FALSE
    /\ ticks' = 0
    /\ UNCHANGED <<tempoSel, prefersReduced, tempo, phaseIdx, phaseTimeLeft,
                   sched, cue, transition, transform, buttons>>

TickStep == \E id \in timers : Tick(id)

TempoStep == \E value \in TempoOptions : TempoChange(value)

DurationStep == \E value \in DurOptions : DurationChange(value)

Next == Start \/ Pause \/ Reset \/ TickStep \/ TempoStep \/ DurationStep

Spec == Init /\ [][Next]_vars
\* the browser keeps calling the callback of a scheduled interval timer
SpecLive == Init /\ [][Next]_vars /\ WF_vars(TickStep)

\* ------------------------------------------- controls holding any value
\* values a control can be made to hold when its options are not the
\* expected positive numbers: empty, non-numeric, zero, negative, positive
AnyValues == { <<>>, <<"a", "b">>, <<"0">>, <<"-", "2">>, <<"3">> }

\* practiceController() has run on controls holding any of these values
InitAny ==
    /\ tempoSel \in AnyValues
    /\ durSel \in AnyValues
    /\ prefersReduced = FALSE   \* the preference plays no part in parsing
    /\ tempo = readTempo(tempoSel)
    /\ total = readTotal(durSel)
    /\ timeLeft = total
    /\ phaseIdx = 0
    /\ phaseTimeLeft = tempo
    /\ running = FALSE
    /\ interval = NoTimer
    /\ timers = {}
    /\ cue = "Ready"
    /\ transition = [kind |-> "unset", sec |-> 0]
    /\ transform = "scale(1)"
    /\ timeText = fmt(timeLeft)
    /\ startDisabled = FALSE
    /\ pauseDisabled = TRUE
    /\ resetDisabled \in BOOLEAN
    /\ op = "init"
    /\ pre = "Idle"
    /\ clean = TRUE
    /\ ticks = 0

TempoStepAny == \E value \in AnyValues : TempoChange(value)

DurationStepAny == \E value \in AnyValues : DurationChange(value)

NextAny == Start \/ Pause \/ Reset \/ TickStep \/ TempoStepAny \/ DurationStepAny

SpecAny == InitAny /\ [][NextAny]_vars

\* ------------------------------------------------- fmt on its own inputs
FmtInputs == (0 - MaxFmtNegative)..MaxFmtInput

\* a controller whose countdown holds any integer of the range and whose
\* display has not been written yet
InitFmt ==
    /\ timeLeft \in FmtInputs
    /\ timeText = <<>>
    /\ tempoSel = ToStr(DefaultTempo)
    /\ durSel = ToStr(DefaultTotal)
    /\ prefersReduced = FALSE
    /\ tempo = DefaultTempo
    /\ total = DefaultTotal
    /\ phaseIdx = 0
    /\ phaseTimeLeft = tempo
    /\ running = FALSE
    /\ interval = NoTimer
    /\ timers = {}
    /\ cue = "Ready"
    /\ transition = [kind |-> "unset", sec |-> 0]
    /\ transform = "scale(1)"
    /\ startDisabled = FALSE
    /\ pauseDisabled = TRUE
    /\ resetDisabled = FALSE
    /\ op = "init"
    /\ pre = "Idle"
    /\ clean = TRUE
    /\ ticks = 0

\* updateTime(): timeLeftEl.textContent = fmt(timeLeft)
updateTime ==
    /\ op = "init"
    /\ op' = "fmt"
    /\ timeText' = fmt(timeLeft)
    /\ UNCHANGED <<config, counters, sched, cue, transition, transform,
                   buttons, pre, clean, ticks>>

NextFmt == updateTime

SpecFmt == InitFmt /\ [][NextFmt]_vars

\* ---------------------------------------------------------------- claims
\* C1: at most one interval timer is scheduled: exactly one while running,
\* none while not running.
C1_OneTimer == Cardinality(timers) = (IF running THEN 1 ELSE 0)

\* a run that was paused and resumed has exactly one timer
C1_Witness == op = "start" /\ pre = "Paused" /\ running /\ Cardinality(timers) = 1

\* C2 (as claimed): with tempo 4 and duration 8, after reset(), start() and
\* exactly 8 ticks the timer is Complete: not running, label "Complete",
\* timeLeft 0.
C2_CompleteAfterDurationTicks ==
    (clean /\ tempo = 4 /\ total = 8 /\ ticks = 8)
        => (~running /\ cue = "Complete" /\ timeLeft = 0)

\* C3 (as claimed): an operation other than reset() that finds the timer
\* Complete leaves it not running with the label "Complete".
C3_CompleteIsTerminal ==
    (pre = "Complete" /\ op # "reset") => (~running /\ cue = "Complete")

\* C4: a tick that finds timeLeft > 0 decreases it by exactly 1 and keeps the
\* timer running; a tick that finds timeLeft = 0 stops the timer without
\* decrementing; timeLeft is never negative.
C4_Monotone ==
    /\ [][(op' = "tick" /\ running) =>
            IF timeLeft > 0
            THEN timeLeft' = timeLeft - 1 /\ running'
            ELSE timeLeft' = timeLeft /\ ~running']_vars
    /\ [](timeLeft >= 0)

\* a whole run was counted down and the next tick stopped it at 0
C4_Witness == op = "tick" /\ clean /\ ticks = total + 1 /\ ~running /\ timeLeft = 0

\* C5: pause() stops tick delivery and changes no counter, no tick runs while
\* the timer is not running, and start() changes no counter.
C5_PausePreserves ==
    [][ /\ (op' = "pause" => (UNCHANGED counters /\ ~running' /\ timers' = {}))
        /\ (~running => op' # "tick")
        /\ (op' = "start" => (UNCHANGED counters /\ running')) ]_vars

\* a run resumed in the middle of a phase and of the countdown
C5_Witness ==
    /\ op = "start" /\ pre = "Paused" /\ running
    /\ 0 < phaseTimeLeft /\ phaseTimeLeft < tempo
    /\ 0 < timeLeft /\ timeLeft < total

\* C6: for every tempo t > 0 and duration d > 0 the controls hold, reset()
\* yields timeLeft = d, phaseTimeLeft = t, phaseIdx = 0, not running, label
\* "Ready" and the resting scale, whatever state it found.
C6_ResetRewinds ==
    \A t \in 1..MaxTempo, d \in 1..MaxDuration :
        (op = "reset" /\ tempoSel = ToStr(t) /\ durSel = ToStr(d))
            => /\ timeLeft = d /\ total = d
               /\ phaseTimeLeft = t /\ tempo = t
               /\ phaseIdx = 0
               /\ ~running
               /\ cue = "Ready"
               /\ transform = "scale(1)"

\* reset() out of Complete
C6_Witness == op = "reset" /\ pre = "Complete" /\ timeLeft = total /\ total > 1

\* C7: start() leaves the timer running, and start() on a running timer
\* changes nothing, so two calls in a row equal one.
C7_StartIdempotent ==
    [][op' = "start" => (running' /\ (running => UNCHANGED prog))]_vars

\* start() was called on a running timer
C7_Witness == op = "start" /\ pre = "Running" /\ running /\ Cardinality(timers) = 1

\* C8: 0 <= phaseTimeLeft <= tempo and 0 <= timeLeft <= total.
C8_CounterBounds ==
    /\ 0 <= phaseTimeLeft /\ phaseTimeLeft <= tempo
    /\ 0 <= timeLeft /\ timeLeft <= total

\* the duration was shortened during a run and the countdown was clamped
C8_Witness ==
    /\ op = "duration" /\ pre = "Running"
    /\ timeLeft = total /\ total < MaxDuration
    /\ phaseTimeLeft < tempo

\* C9: the start control is disabled exactly when the timer is running and
\* the pause control exactly when it is not.
C9_ButtonsTrackRunning ==
    /\ startDisabled = running
    /\ pauseDisabled = ~running

\* the run completed by itself
C9_Witness == op = "tick" /\ pre = "Running" /\ cue = "Complete" /\ ~startDisabled /\ pauseDisabled

\* C10: in an undisturbed run with tempo 4 the phase index is 0 after exactly
\* 4 ticks; for every tempo the index passes 1, 2, 3 and is back at 0 after
\* four phase changes (the cycle has 4 phases whatever the tempo).
C10_PhaseCycle ==
    /\ (clean /\ tempo = 4 /\ ticks = 4) => phaseIdx = 0
    /\ \A k \in 1..4 :
          (clean /\ ticks = k * tempo + 1) => phaseIdx = k % 4

\* 4 ticks into an undisturbed run with tempo 4
C10_Witness == clean /\ tempo = 4 /\ ticks = 4 /\ running /\ phaseIdx = 0

\* a whole cycle of four phases has passed
C10_CycleWitness == clean /\ ticks = 4 * tempo + 1 /\ phaseIdx = 0
\* C11 (as claimed): a tempo change does not alter phaseTimeLeft of the phase
\* in progress; the new tempo is first used when the next phase begins.
C11_TempoAtNextBoundary ==
    [][(op' = "tempo" /\ running /\ 0 < phaseTimeLeft /\ phaseTimeLeft < tempo)
          => phaseTimeLeft' = phaseTimeLeft]_vars

C13_DurationChangeEffect ==
    [][op' = "duration" =>
         /\ \E d \in 1..MaxDuration :
               /\ durSel' = ToStr(d) /\ total' = d
               /\ timeLeft' = (IF timeLeft <= d THEN timeLeft ELSE d)
         /\ timeLeft' <= timeLeft
         /\ UNCHANGED <<phaseIdx, phaseTimeLeft, tempo, running>>]_vars

\* the duration was raised above the time left of a started run
C13_Witness ==
    /\ op = "duration" /\ pre \in {"Running", "Paused"}
    /\ timeLeft < total /\ 0 < timeLeft
\* C14 (as claimed): whatever value the controls hold, a value that is not a
\* positive number is replaced by the default, so tempo > 0 and total > 0.
C14_ConfigAlwaysPositive == tempo > 0 /\ total > 0
\* C15: under the reduced-motion preference the transition is never a timed
\* one, and each time a phase's animation target is applied (start() on a
\* stopped timer, a phase change in tick) the transition is set to none;
\* without the preference it is set to a transform of the current tempo.
C15_ReducedMotion ==
    /\ [](prefersReduced => transition.kind # "transform")
    /\ [][((op' = "start" /\ ~running) \/ (op' = "tick" /\ running /\ phaseTimeLeft <= 0))
            => transition' = (IF prefersReduced
                              THEN [kind |-> "none", sec |-> 0]
                              ELSE [kind |-> "transform", sec |-> tempo])]_vars

\* a phase change was applied under the reduced-motion preference
C15_Witness ==
    /\ prefersReduced /\ op = "tick" /\ running
    /\ phaseIdx = 1 /\ cue = "Hold" /\ transform = "scale(1.28)"
    /\ transition.kind = "none" /\ tempo > 1
\* C16: fmt(s) is MM:SS: "00:00" for negative s, otherwise the two digits of
\* floor(s / 60), a colon and the two digits of s mod 60; fmt(65) = "01:05",
\* fmt(0) = "00:00", fmt(-5) = "00:00".
C16_FmtMMSS ==
    op = "fmt" =>
        LET s == IF timeLeft < 0 THEN 0 ELSE timeLeft
            m == s \div 60
            r == s % 60
        IN  /\ timeText = << DigitChars[(m \div 10) + 1], DigitChars[(m % 10) + 1], ":",
                             DigitChars[(r \div 10) + 1], DigitChars[(r % 10) + 1] >>
            /\ (timeLeft = 65 => timeText = <<"0", "1", ":", "0", "5">>)
            /\ (timeLeft = 0 => timeText = <<"0", "0", ":", "0", "0">>)
            /\ (timeLeft = 0 - 5 => timeText = <<"0", "0", ":", "0", "0">>)

\* fmt was applied to 65
C16_Witness == op = "fmt" /\ timeLeft = 65 /\ timeText = <<"0", "1", ":", "0", "5">>

\* fmt was applied to a negative number
C16_NegativeWitness == op = "fmt" /\ timeLeft = 0 - 5 /\ timeText = <<"0", "0", ":", "0", "0">>
\* C17: a running timer eventually completes by itself (not running, label
\* "Complete", timeLeft = 0) unless pause() or reset() is called; tempo and
\* duration changes do not prevent it.
C17_EventuallyComplete ==
    running ~> ( \/ (~running /\ cue = "Complete" /\ timeLeft = 0)
                 \/ op \in {"pause", "reset"} )

\* a run whose configuration was changed on the way completed by itself
C17_Witness ==
    /\ op = "tick" /\ pre = "Running" /\ ~clean
    /\ ~running /\ cue = "Complete" /\ timeLeft = 0
\* C18: in an undisturbed run each phase lasts exactly tempo ticks: after k
\* ticks, 1 <= k <= total, phaseIdx = floor((k - 1) / tempo) mod 4; and the
\* index only ever moves from i to (i + 1) mod 4 (or to 0 by reset()).
C18_PhaseLength ==
    /\ []((clean /\ 1 <= ticks /\ ticks <= total)
            => phaseIdx = ((ticks - 1) \div tempo) % 4)
    /\ [][phaseIdx' # phaseIdx =>
            \/ (op' = "tick" /\ phaseIdx' = (phaseIdx + 1) % 4)
            \/ (op' = "reset" /\ phaseIdx' = 0)]_vars

\* the third phase has just begun, two whole phases of tempo ticks behind it
C18_Witness ==
    /\ clean /\ running /\ tempo > 1
    /\ ticks = 2 * tempo + 1 /\ ticks <= total
    /\ phaseIdx = 2 /\ phaseTimeLeft = tempo - 1

\* the index wrapped from 3 to 0 in an undisturbed run
C18_WrapWitness == clean /\ ticks = 4 * tempo + 1 /\ ticks <= total /\ phaseIdx = 0

\* C19: the displayed remaining time is fmt(timeLeft) after every operation.
C19_DisplayConsistent == timeText = fmt(timeLeft)

\* the countdown was clamped by a duration change during a run and the
\* display followed
C19_Witness ==
    /\ op = "duration" /\ pre = "Running" /\ timeLeft = total
    /\ timeText = <<"0", "0", ":", "0", "1">>

\* C20: while the timer is running the label is the label of the current
\* phase; "Ready" and "Complete" are shown only while it is not running.
C20_LabelConsistent ==
    /\ running => cue = phases[phaseIdx + 1].label
    /\ cue \in {"Ready", "Complete"} => ~running

\* the run has reached the exhale phase
C20_Witness == running /\ op = "tick" /\ phaseIdx = 2 /\ cue = "Exhale"
====
